---- MODULE Spec2Model ----
(***************************************************************************)
(* File-tree snapshot diff analyzer (src/main.py).                         *)
(*                                                                         *)
(* A Python str is modelled as a sequence of Unicode code points, so that  *)
(* slicing, replace, strip, the size regex and the ordering used by        *)
(* sorted() are computed character by character.  Python integers are      *)
(* unbounded and its floats are IEEE 754 doubles; the inputs of the        *)
(* specifications below keep every value TLC computes under 2^31.          *)
(***************************************************************************)
EXTENDS Integers, Sequences, FiniteSets, TLC

VARIABLES
    pc,          \* position of main(): which statement runs next
    old_file,    \* content of args.old_file: Unreadable or a sequence of lines
    new_file,    \* content of args.new_file
    lines,       \* load_snapshot: f.readlines()[2:]
    line_no,     \* load_snapshot: number of lines of `lines` already iterated
    path_stack,  \* load_snapshot: path_stack
    snapshot,    \* load_snapshot: snapshot
    loc,         \* load_snapshot: locals assigned by the last retained line
    old_snap,    \* main: old_snap
    new_snap,    \* main: new_snap
    all_paths,   \* main: all_paths
    path_i,      \* main: number of entries of all_paths already iterated
    added,       \* main: added
    removed,     \* main: removed
    changed,     \* main: changed
    report,      \* the output file: whether it was created, and its lines
    exit_status, \* <<>> while running, <<0>> or <<1>> once the process ended
    fmt_in,      \* argument of a stand-alone format_bytes call
    fmt_out      \* its result (<<>> before the call)

vars == <<pc, old_file, new_file, lines, line_no, path_stack, snapshot, loc,
          old_snap, new_snap, all_paths, path_i, added, removed, changed,
          report, exit_status, fmt_in, fmt_out>>

-----------------------------------------------------------------------------
(* Characters and strings *)

Ord(c) ==
    CASE c = "\t" -> 9   [] c = "\n" -> 10  [] c = " " -> 32  [] c = "(" -> 40
      [] c = ")" -> 41   [] c = "+" -> 43   [] c = "-" -> 45  [] c = "." -> 46
      [] c = "/" -> 47   [] c = "0" -> 48   [] c = "1" -> 49  [] c = "2" -> 50
      [] c = "3" -> 51   [] c = "4" -> 52   [] c = "5" -> 53  [] c = "6" -> 54
      [] c = "7" -> 55   [] c = "8" -> 56   [] c = "9" -> 57  [] c = ":" -> 58
      [] c = "=" -> 61   [] c = ">" -> 62   [] c = "A" -> 65  [] c = "B" -> 66
      [] c = "C" -> 67   [] c = "D" -> 68   [] c = "E" -> 69  [] c = "G" -> 71
      [] c = "H" -> 72   [] c = "I" -> 73   [] c = "K" -> 75  [] c = "M" -> 77
      [] c = "N" -> 78   [] c = "O" -> 79   [] c = "R" -> 82  [] c = "S" -> 83
      [] c = "T" -> 84   [] c = "V" -> 86   [] c = "Z" -> 90  [] c = "[" -> 91
      [] c = "]" -> 93   [] c = "_" -> 95   [] c = "a" -> 97  [] c = "b" -> 98
      [] c = "c" -> 99   [] c = "d" -> 100  [] c = "e" -> 101 [] c = "f" -> 102
      [] c = "h" -> 104  [] c = "i" -> 105  [] c = "l" -> 108 [] c = "m" -> 109
      [] c = "n" -> 110  [] c = "o" -> 111  [] c = "p" -> 112 [] c = "r" -> 114
      [] c = "s" -> 115  [] c = "t" -> 116  [] c = "u" -> 117 [] c = "v" -> 118
      [] c = "w" -> 119  [] c = "x" -> 120

\* A string literal, written as a tuple of one-character strings.
Str(cs) == [i \in 1..Len(cs) |-> Ord(cs[i])]

Min(a, b) == IF a <= b THEN a ELSE b

\* s[n:] and s[:n] for n >= 0
Drop(s, n) == SubSeq(s, Min(n, Len(s)) + 1, Len(s))
Take(s, n) == SubSeq(s, 1, Min(n, Len(s)))

\* Characters str.strip()/rstrip() remove and the regex class \s of a str
\* pattern matches: the code points for which str.isspace() holds.
IsSpace(c) ==
    c \in (9..13) \cup (28..32) \cup {133, 160, 5760} \cup (8192..8202)
          \cup {8232, 8233, 8239, 8287, 12288}

\* The code point of the digit zero of every decimal digit block (general
\* category Nd, Unicode 14.0.0 as shipped with the interpreter); each block
\* holds the digits 0..9 in order.
DigitZeros ==
    {48, 1632, 1776, 1984, 2406, 2534, 2662, 2790, 2918, 3046, 3174, 3302,
     3430, 3558, 3664, 3792, 3872, 4160, 4240, 6112, 6160, 6470, 6608, 6784,
     6800, 6992, 7088, 7232, 7248, 42528, 43216, 43264, 43472, 43504, 43600,
     44016, 65296, 66720, 68912, 69734, 69872, 69942, 70096, 70384, 70736,
     70864, 71248, 71360, 71472, 71904, 72016, 72784, 73040, 73120, 92768,
     92864, 93008, 120782, 120792, 120802, 120812, 120822, 123200, 123632,
     125264, 130032}

\* The regex class \d of a str pattern: every Unicode decimal digit.
IsDigit(c) == \E z \in DigitZeros : c \in z..(z + 9)

\* The value float() gives a decimal digit.
DigitValue(c) == c - (CHOOSE z \in DigitZeros : c \in z..(z + 9))

RECURSIVE RStrip(_)
RStrip(s) ==
    IF s # <<>> /\ IsSpace(s[Len(s)]) THEN RStrip(SubSeq(s, 1, Len(s) - 1)) ELSE s

RECURSIVE LStrip(_)
LStrip(s) == IF s # <<>> /\ IsSpace(s[1]) THEN LStrip(Tail(s)) ELSE s

Strip(s) == LStrip(RStrip(s))

\* len(s) - len(s.lstrip(' ')): only the space character counts.
RECURSIVE LeadingSpaces(_)
LeadingSpaces(s) ==
    IF s # <<>> /\ s[1] = 32 THEN 1 + LeadingSpaces(Tail(s)) ELSE 0

\* s.replace(old, new): leftmost non-overlapping occurrences, one pass.
RECURSIVE Replace(_, _, _)
Replace(s, old, new) ==
    IF Len(s) < Len(old) THEN s
    ELSE IF Take(s, Len(old)) = old
         THEN new \o Replace(Drop(s, Len(old)), old, new)
         ELSE <<s[1]>> \o Replace(Tail(s), old, new)

\* "/".join(stack)
RECURSIVE Join(_)
Join(stack) ==
    IF stack = <<>> THEN <<>>
    ELSE IF Len(stack) = 1 THEN stack[1]
    ELSE stack[1] \o <<47>> \o Join(Tail(stack))

\* Python's str ordering: code point by code point, a proper prefix first.
RECURSIVE StrLess(_, _)
StrLess(a, b) ==
    IF b = <<>> THEN FALSE
    ELSE IF a = <<>> THEN TRUE
    ELSE IF a[1] # b[1] THEN a[1] < b[1]
    ELSE StrLess(Tail(a), Tail(b))

\* Decimal digits of n >= 0.
RECURSIVE IntToStr(_)
IntToStr(n) ==
    IF n < 10 THEN <<48 + n>> ELSE IntToStr(n \div 10) \o <<48 + (n % 10)>>

RECURSIVE Pow(_, _)
Pow(b, e) == IF e = 0 THEN 1 ELSE b * Pow(b, e - 1)

-----------------------------------------------------------------------------
(* parse_size_to_bytes *)

units == <<"B", "KB", "MB", "GB", "TB">>

UnitStr(u) ==
    CASE u = "B" -> <<66>> [] u = "KB" -> <<75, 66>> [] u = "MB" -> <<77, 66>>
      [] u = "GB" -> <<71, 66>> [] u = "TB" -> <<84, 66>>

multipliers(u) ==
    CASE u = "B" -> 1
      [] u = "KB" -> 1024
      [] u = "MB" -> 1024 * 1024
      [] u = "GB" -> 1024 * 1024 * 1024
      [] u = "TB" -> 1024 * 1024 * 1024 * 1024

\* End (exclusive) of the maximal run of [\d.] characters starting at i.
RECURSIVE NumRunEnd(_, _)
NumRunEnd(s, i) ==
    IF i <= Len(s) /\ (IsDigit(s[i]) \/ s[i] = 46) THEN NumRunEnd(s, i + 1) ELSE i

RECURSIVE SkipSpaces(_, _)
SkipSpaces(s, i) == IF i <= Len(s) /\ IsSpace(s[i]) THEN SkipSpaces(s, i + 1) ELSE i

\* (B|KB|MB|GB|TB) tried in that order at position p; "" when none matches.
UnitAt(s, p) ==
    IF Take(Drop(s, p - 1), 1) = UnitStr("B") THEN "B"
    ELSE IF Take(Drop(s, p - 1), 2) = UnitStr("KB") THEN "KB"
    ELSE IF Take(Drop(s, p - 1), 2) = UnitStr("MB") THEN "MB"
    ELSE IF Take(Drop(s, p - 1), 2) = UnitStr("GB") THEN "GB"
    ELSE IF Take(Drop(s, p - 1), 2) = UnitStr("TB") THEN "TB"
    ELSE ""

\* The pattern ([\d.]+)\s*(B|KB|MB|GB|TB) anchored at i.  The three character
\* classes are disjoint, so giving back characters of a greedy run never
\* makes a later part match: the only candidate is the maximal run.
MatchAt(s, i) ==
    LET e == NumRunEnd(s, i)
        u == UnitAt(s, SkipSpaces(s, e))
    IN  IF e > i /\ u # ""
        THEN <<[num |-> SubSeq(s, i, e - 1), unit |-> u]>>
        ELSE <<>>

\* re.search: the match at the leftmost position that has one, <<>> if none.
RECURSIVE SearchFrom(_, _)
SearchFrom(s, i) ==
    IF i > Len(s) THEN <<>>
    ELSE LET m == MatchAt(s, i)
         IN  IF m # <<>> THEN m ELSE SearchFrom(s, i + 1)

CountDots(num) == Cardinality({i \in 1..Len(num) : num[i] = 46})

\* float() accepts digits with at most one dot and at least one digit here;
\* anything else in [\d.]+ raises ValueError.
FloatAccepts(num) == CountDots(num) <= 1 /\ Len(num) > CountDots(num)

\* The digits of num read as one integer (the dot removed).
RECURSIVE DigitsValue(_)
DigitsValue(num) ==
    IF num = <<>> THEN 0
    ELSE IF num[Len(num)] = 46 THEN DigitsValue(SubSeq(num, 1, Len(num) - 1))
    ELSE 10 * DigitsValue(SubSeq(num, 1, Len(num) - 1)) + DigitValue(num[Len(num)])

\* Number of digits after the dot.
FracDigits(num) ==
    IF CountDots(num) = 0 THEN 0
    ELSE Len(num) - (CHOOSE i \in 1..Len(num) : num[i] = 46)

\* a / b rounded to the nearest integer, ties to the even one (a >= 0, b > 0).
RoundHalfEven(a, b) ==
    LET q == a \div b
        r == a % b
    IN  IF 2 * r > b \/ (2 * r = b /\ q % 2 = 1) THEN q + 1 ELSE q

\* n.bit_length() for n >= 0
RECURSIVE BitLength(_)
BitLength(n) == IF n = 0 THEN 0 ELSE 1 + BitLength(n \div 2)

\* The float type is the IEEE 754 double: a significand of 53 bits, and an
\* integer significand's binary exponent between -1074 and 971.
DoubleBits == 53
DoubleMinExp == -1074
DoubleMaxExp == 971

\* The double nearest to d / t for integers d, t > 0, as [q, e] with value
\* q * 2^e.  The exponent e puts d / t * 2^-e in [2^52, 2^53), or is the least
\* exponent when d / t is below the normal range (a subnormal, possibly 0);
\* q is that quotient rounded to nearest, ties to even.  q = 2^53 after a
\* carry stands for 2^52 at the next exponent.
FloatOf(d, t) ==
    LET up(e) == IF e > 0 THEN Pow(2, e) ELSE 1
        down(e) == IF e < 0 THEN Pow(2, -e) ELSE 1
        e == CHOOSE x \in DoubleMinExp..BitLength(d) :
                /\ d * down(x) < Pow(2, DoubleBits) * t * up(x)
                /\ \/ x = DoubleMinExp
                   \/ Pow(2, DoubleBits - 1) * t * up(x) <= d * down(x)
    IN  [q |-> RoundHalfEven(d * down(e), t * up(e)), e |-> e]

\* Whether q * 2^e is beyond the largest double: the float is inf.
IsInf(q, e) == e >= 0 /\ q * Pow(2, e) >= Pow(2, DoubleMaxExp + DoubleBits)

\* int(x) for the finite float x = q * 2^e, q >= 0: truncation.
IntOf(q, e) == IF e >= 0 THEN q * Pow(2, e) ELSE q \div Pow(2, -e)

\* Whether float(num) * m is inf, so that int() of it raises OverflowError.
\* float() of a number too large returns inf, and so does the product; m is a
\* power of two, so the product of a finite float by m is exact otherwise.
\* No product below 2^53 is near that range.
ProductOverflows(num, m) ==
    LET d == DigitsValue(num)
        t == Pow(10, FracDigits(num))
    IN  IF BitLength(d * m) <= DoubleBits THEN FALSE
        ELSE IsInf(FloatOf(d, t).q * m, FloatOf(d, t).e)

\* int(float(num) * m) when the product is finite.  float(num) is the decimal
\* value rounded to a double.  While digits * m < 2^53 the rounding cannot
\* move the product across an integer (the exact product is a multiple of
\* 1/10^frac, and is computed exactly when it is an integer), so the result is
\* the decimal product truncated; the first branch takes that route.
IntOfProduct(num, m) ==
    LET d == DigitsValue(num)
        t == Pow(10, FracDigits(num))
    IN  IF BitLength(d * m) <= DoubleBits THEN (d * m) \div t
        ELSE IntOf(FloatOf(d, t).q * m, FloatOf(d, t).e)

\* Result of a call: a returned value, or the exception it raised.
Returned(v) == [raised |-> "", value |-> v]
Raised(e) == [raised |-> e, value |-> 0]

parse_size_to_bytes(size_str) ==
    LET match == SearchFrom(size_str, 1)
    IN  IF match = <<>> THEN Returned(0)
        ELSE IF ~FloatAccepts(match[1].num) THEN Raised("ValueError")
        ELSE IF ProductOverflows(match[1].num, multipliers(match[1].unit))
        THEN Raised("OverflowError")
        ELSE Returned(IntOfProduct(match[1].num, multipliers(match[1].unit)))

-----------------------------------------------------------------------------
(* format_bytes *)

\* Whether converting the integer n to a float raises OverflowError: the
\* nearest double would be beyond the largest one.
IntTooLarge(n) ==
    LET a == IF n < 0 THEN -n ELSE n
    IN  IF BitLength(a) <= DoubleBits THEN FALSE
        ELSE IsInf(FloatOf(a, 1).q, FloatOf(a, 1).e)

\* float(n) for an integer n that converts, as the integer it equals: n
\* itself up to 53 bits, the nearest double (ties to even) beyond.  Both
\* `size_bytes /= 1024.0` and the format type 'f' convert an int this way.
FloatInt(n) ==
    LET a == IF n < 0 THEN -n ELSE n
        v == IntOf(FloatOf(a, 1).q, FloatOf(a, 1).e)
    IN  IF BitLength(a) <= DoubleBits THEN n
        ELSE IF n < 0 THEN -v ELSE v

\* The while loop: i when it ends, x being float(size_bytes).  size_bytes
\* after i divisions is x / 1024^i exactly (a division by a power of two), and
\* x / 1024^i >= 1024 exactly when its floor is (false for every x < 0).  The
\* first test, on the int itself, gives what it gives on x: the conversion is
\* monotone and keeps 1024.
RECURSIVE ScaleIndex(_, _)
ScaleIndex(x, i) ==
    IF x \div Pow(1024, i) >= 1024 /\ i < Len(units) - 1 THEN ScaleIndex(x, i + 1) ELSE i

\* |x| / p to one decimal place, in tenths: '.1f' rounds the exact value of
\* the float x / p, ties to even.
RoundTenths(x, p) == RoundHalfEven((IF x < 0 THEN -x ELSE x) * 10, p)

\* Variant: f"{x:.1f}", the sign shown for negative values only.
SignedFixed1_NoPlus(n, p) ==
    LET t == RoundTenths(n, p)
    IN  (IF n < 0 THEN <<45>> ELSE <<>>) \o IntToStr(t \div 10) \o <<46, 48 + (t % 10)>>

\* f"{x:+.1f}" for x = n / p
SignedFixed1(n, p) ==
    LET t == RoundTenths(n, p)
    IN  <<IF n < 0 THEN 45 ELSE 43>> \o IntToStr(t \div 10) \o <<46, 48 + (t % 10)>>

format_bytes(size_bytes) ==
    IF size_bytes = 0 THEN Returned(Str(<<"0", " ", "B">>))
    ELSE IF IntTooLarge(size_bytes) THEN Raised("OverflowError")
    ELSE LET x == FloatInt(size_bytes)
             i == ScaleIndex(x, 0)
         IN  Returned(SignedFixed1(x, Pow(1024, i)) \o <<32>> \o UnitStr(units[i + 1]))

-----------------------------------------------------------------------------
(* load_snapshot: decoding one line *)

BoxTee == 9500      \* U+251C
BoxEll == 9492      \* U+2514
BoxBar == 9474      \* U+2502
BoxDash == 9472     \* U+2500

TeePrefix == <<BoxTee, BoxDash, BoxDash, 32>>
EllPrefix == <<BoxEll, BoxDash, BoxDash, 32>>
BarPrefix == <<BoxBar, 32, 32, 32>>
FourSpaces == <<32, 32, 32, 32>>

SizeFieldWidth == 12

IsBlank(line) == Strip(line) = <<>>

size_part(line) == Take(line, SizeFieldWidth)
tree_part(line) == RStrip(Drop(line, SizeFieldWidth))

indent_content(line) ==
    Replace(Replace(Replace(tree_part(line), TeePrefix, FourSpaces),
                    EllPrefix, FourSpaces),
            BarPrefix, FourSpaces)

indent_count(line) == LeadingSpaces(indent_content(line)) \div 4

NameOf(line) ==
    Strip(Replace(Replace(Replace(tree_part(line), TeePrefix, <<>>),
                          EllPrefix, <<>>),
                  BarPrefix, <<>>))

\* Variant: path_stack[-indent_count:], the last entries kept.
Truncate_Last(stack, n) ==
    IF n = 0 THEN stack
    ELSE SubSeq(stack, Len(stack) - Min(n, Len(stack)) + 1, Len(stack))

\* path_stack[:indent_count]
Truncate(stack, n) == SubSeq(stack, 1, Min(n, Len(stack)))

\* path_stack = path_stack[:indent_count]; path_stack.append(name)
PushName(stack, line) == Append(Truncate(stack, indent_count(line)), NameOf(line))

\* Variant: an existing key keeps its first value.
Store_FirstWins(snap, key, value) ==
    [p \in DOMAIN snap \cup {key} |-> IF p \in DOMAIN snap THEN snap[p] ELSE value]

\* snapshot[full_path] = size_bytes
Store(snap, key, value) ==
    [p \in DOMAIN snap \cup {key} |-> IF p = key THEN value ELSE snap[p]]

EmptySnapshot == [p \in {} |-> 0]

-----------------------------------------------------------------------------
(* main: the diff loop and the report *)

\* Variant: sorted(..., reverse=True)
RECURSIVE Sorted_Reverse(_)
Sorted_Reverse(S) ==
    IF S = {} THEN <<>>
    ELSE LET m == CHOOSE x \in S : \A y \in S \ {x} : StrLess(y, x)
         IN  <<m>> \o Sorted_Reverse(S \ {m})

\* sorted(S) for a set of strings: ascending by StrLess.
RECURSIVE Sorted(_)
Sorted(S) ==
    IF S = {} THEN <<>>
    ELSE LET m == CHOOSE x \in S : \A y \in S \ {x} : StrLess(x, y)
         IN  <<m>> \o Sorted(S \ {m})

\* Variant: the test `diff != 0` is missing.
DiffStep_NoZeroTest(lists, path, old, new) ==
    IF path \notin DOMAIN old
    THEN [lists EXCEPT !.added = Append(@, <<path, new[path]>>)]
    ELSE IF path \notin DOMAIN new
    THEN [lists EXCEPT !.removed = Append(@, <<path, old[path]>>)]
    ELSE [lists EXCEPT !.changed = Append(@, <<path, new[path] - old[path], new[path]>>)]

\* Variant: the delta is recorded as an absolute difference.
DiffStep_AbsDelta(lists, path, old, new) ==
    IF path \notin DOMAIN old
    THEN [lists EXCEPT !.added = Append(@, <<path, new[path]>>)]
    ELSE IF path \notin DOMAIN new
    THEN [lists EXCEPT !.removed = Append(@, <<path, old[path]>>)]
    ELSE LET diff == new[path] - old[path]
         IN  IF diff # 0
             THEN [lists EXCEPT !.changed =
                      Append(@, <<path, IF diff < 0 THEN -diff ELSE diff, new[path]>>)]
             ELSE lists

\* One iteration of `for path in all_paths` on the three lists.
DiffStep(lists, path, old, new) ==
    IF path \notin DOMAIN old
    THEN [lists EXCEPT !.added = Append(@, <<path, new[path]>>)]
    ELSE IF path \notin DOMAIN new
    THEN [lists EXCEPT !.removed = Append(@, <<path, old[path]>>)]
    ELSE LET diff == new[path] - old[path]
         IN  IF diff # 0
             THEN [lists EXCEPT !.changed = Append(@, <<path, diff, new[path]>>)]
             ELSE lists

EmptyLists == [added |-> <<>>, removed |-> <<>>, changed |-> <<>>]

\* The whole loop over paths[from..], as a fold of DiffStep.
RECURSIVE DiffFrom(_, _, _, _)
DiffFrom(lists, paths, old, new) ==
    IF paths = <<>> THEN lists
    ELSE DiffFrom(DiffStep(lists, Head(paths), old, new), Tail(paths), old, new)

\* Lines 82-97 for a pair of snapshots.
Diff(old, new) ==
    DiffFrom(EmptyLists, Sorted(DOMAIN old \cup DOMAIN new), old, new)

RECURSIVE LastIndexOf(_, _)
LastIndexOf(s, c) ==
    IF s = <<>> THEN 0
    ELSE IF s[Len(s)] = c THEN Len(s)
    ELSE LastIndexOf(SubSeq(s, 1, Len(s) - 1), c)

\* s.split(c)
RECURSIVE Split(_, _)
Split(s, c) ==
    LET i == LastIndexOf(s, c)
    IN  IF i = 0 THEN <<s>> ELSE Append(Split(Take(s, i - 1), c), Drop(s, i))

\* Path(file_name).name: the last component of the path, where empty
\* components and '.' components do not count; '' when there is none.
PathName(file_name) ==
    LET parts == SelectSeq(Split(file_name, 47), LAMBDA x : x # <<>> /\ x # <<46>>)
    IN  IF parts = <<>> THEN <<>> ELSE parts[Len(parts)]

\* Path(file_name).stem: the name without its last suffix (a dot that is
\* neither its first nor its last character).
Stem(file_name) ==
    LET base == PathName(file_name)
        dot == LastIndexOf(base, 46)
    IN  IF dot > 1 /\ dot < Len(base) THEN Take(base, dot - 1) ELSE base

\* f"{s:>w}"
RECURSIVE PadLeft(_, _)
PadLeft(s, w) == IF Len(s) >= w THEN s ELSE PadLeft(<<32>> \o s, w)

Repeat(c, n) == [i \in 1..n |-> c]

\* The command-line arguments of the modelled runs.
OldFileName == Str(<<"o", "l", "d", ".", "t", "x", "t">>)
NewFileName == Str(<<"s", "n", "a", "p", "/", "n", "e", "w", ".", "t", "x", "t">>)

output_name ==
    Str(<<"d", "i", "f", "f", "_">>) \o Stem(OldFileName)
    \o Str(<<"_", "v", "s", "_">>) \o Stem(NewFileName) \o Str(<<".", "t", "x", "t">>)

\* The text of one f.write(...) of the loops, or the exception its
\* format_bytes call raises.
AddedLine(e) ==
    LET f == format_bytes(e[2])
    IN  IF f.raised # "" THEN f
        ELSE Returned(<<91, 43>> \o Strip(f.value) \o <<93, 32, 32>> \o e[1])

RemovedLine(e) ==
    LET f == format_bytes(e[2])
    IN  IF f.raised # "" THEN f
        ELSE Returned(<<91, 45>> \o Strip(f.value) \o <<93, 32, 32>> \o e[1])

ChangedLine(e) ==
    LET f == format_bytes(e[2])
        g == format_bytes(e[3])
    IN  IF f.raised # "" THEN f
        ELSE IF g.raised # "" THEN g
        ELSE Returned(<<91>> \o PadLeft(f.value, 10)
                \o Str(<<"]", " ", "(", "C", "u", "r", "r", "e", "n", "t", ":", " ">>)
                \o PadLeft(Strip(g.value), 8) \o <<41, 32, 32>> \o e[1])

Count(list) == <<32, 40>> \o IntToStr(Len(list)) \o <<41>>

\* The writes of lines 103-119 in order: the line each one writes (followed
\* by "\n" in the file), or the exception raised in place of it.
ReportWrites(a, r, c) ==
    << Returned(<<128202>>
          \o Str(<<" ", "C", "o", "m", "p", "a", "r", "i", "s", "o", "n", ":", " ">>)
          \o OldFileName \o Str(<<" ", "-", ">", " ">>) \o NewFileName),
       Returned(Repeat(61, 60)),
       Returned(<<>>),
       Returned(<<127381>> \o Str(<<" ", "A", "D", "D", "E", "D">>) \o Count(a)),
       Returned(Repeat(45, 30)) >>
    \o [i \in 1..Len(a) |-> AddedLine(a[i])]
    \o << Returned(<<>>),
          Returned(<<128465, 65039>> \o Str(<<" ", "R", "E", "M", "O", "V", "E", "D">>)
                      \o Count(r)),
          Returned(Repeat(45, 30)) >>
    \o [i \in 1..Len(r) |-> RemovedLine(r[i])]
    \o << Returned(<<>>),
          Returned(<<128260>>
             \o Str(<<" ", "S", "I", "Z", "E", " ", "C", "H", "A", "N", "G", "E", "D">>)
             \o Count(c)),
          Returned(Repeat(45, 30)) >>
    \o [i \in 1..Len(c) |-> ChangedLine(c[i])]

\* How many writes are done before one raises: all of them when none does.
WritesDone(ws) ==
    IF \A i \in 1..Len(ws) : ws[i].raised = "" THEN Len(ws)
    ELSE (CHOOSE i \in 1..Len(ws) :
             ws[i].raised # "" /\ \A j \in 1..(i - 1) : ws[j].raised = "") - 1

\* The lines the report file holds when the with block is left.
ReportLines(a, r, c) ==
    LET ws == ReportWrites(a, r, c)
    IN  [i \in 1..WritesDone(ws) |-> ws[i].value]

\* The report file: whether it exists, its name, the lines written to it, and
\* how much of them it holds: "all", or "prefix" for the first k bytes of
\* their UTF-8 encoding, k below its length and set by what stopped the
\* write (the space left, a file-size limit); "none" while there is no file.
NoReport == [created |-> FALSE, name |-> <<>>, lines |-> <<>>, stored |-> "none"]

-----------------------------------------------------------------------------
(* The program as a state machine *)

NoLocals ==
    [bound |-> FALSE, indent_count |-> 0, name |-> <<>>, size_bytes |-> 0,
     full_path |-> <<>>]

\* Variant: one stack shared by every load_snapshot call.
NewPathStack_Shared == path_stack

\* path_stack = [] at the start of each load_snapshot call
NewPathStack == <<>>

FileOf(w) == IF w = "old" THEN old_file ELSE new_file

\* load_snapshot(file_path) is entered: snapshot = {}, path_stack = []
Call(w) ==
    /\ pc = <<"call", w>>
    /\ pc' = <<"open", w>>
    /\ snapshot' = EmptySnapshot
    /\ path_stack' = NewPathStack
    /\ loc' = NoLocals
    /\ lines' = <<>>
    /\ line_no' = 0
    /\ UNCHANGED <<old_file, new_file, old_snap, new_snap, all_paths, path_i,
                   added, removed, changed, report, exit_status, fmt_in, fmt_out>>

\* except Exception: print the error, sys.exit(1).  The message stays in the
\* buffer of standard output until the interpreter exits: the status is 1, or
\* 120 when that flush fails.  A print that raises in its turn (unbuffered
\* output, an encoding without the characters) ends the run with status 1 too.
Abort ==
    /\ pc' = <<"exit", "">>
    /\ \E st \in {1, 120} : exit_status' = <<st>>
    /\ UNCHANGED <<old_file, new_file, lines, line_no, path_stack, snapshot,
                   old_snap, new_snap, all_paths, path_i, added, removed, changed,
                   report, fmt_in, fmt_out>>

\* open(...) and f.readlines()[2:] succeed
OpenOk(w) ==
    /\ pc = <<"open", w>>
    /\ FileOf(w).readable
    /\ pc' = <<"loop", w>>
    /\ lines' = Drop(FileOf(w).lines, 2)
    /\ line_no' = 0
    /\ UNCHANGED <<old_file, new_file, path_stack, snapshot, loc, old_snap,
                   new_snap, all_paths, path_i, added, removed, changed, report,
                   exit_status, fmt_in, fmt_out>>

\* open(...) or the read raises
OpenFail(w) ==
    /\ pc = <<"open", w>>
    /\ ~FileOf(w).readable
    /\ Abort
    /\ UNCHANGED loc

\* `if not line.strip(): continue`
LoopBlank(w) ==
    /\ pc = <<"loop", w>>
    /\ line_no < Len(lines)
    /\ IsBlank(lines[line_no + 1])
    /\ line_no' = line_no + 1
    /\ UNCHANGED <<pc, old_file, new_file, lines, path_stack, snapshot, loc,
                   old_snap, new_snap, all_paths, path_i, added, removed, changed,
                   report, exit_status, fmt_in, fmt_out>>

\* One retained line, lines 48-64.
LoopLine(w) ==
    /\ pc = <<"loop", w>>
    /\ line_no < Len(lines)
    /\ LET line == lines[line_no + 1]
           size == parse_size_to_bytes(size_part(line))
           stack == PushName(path_stack, line)
       IN  /\ ~IsBlank(line)
           /\ size.raised = ""
           /\ path_stack' = stack
           /\ snapshot' = Store(snapshot, Join(stack), size.value)
           /\ loc' = [bound |-> TRUE, indent_count |-> indent_count(line),
                      name |-> NameOf(line), size_bytes |-> size.value,
                      full_path |-> Join(stack)]
    /\ line_no' = line_no + 1
    /\ UNCHANGED <<pc, old_file, new_file, lines, old_snap, new_snap, all_paths,
                   path_i, added, removed, changed, report, exit_status, fmt_in,
                   fmt_out>>

\* A retained line whose size field makes parse_size_to_bytes raise (line 57):
\* lines 54 and 56 have bound indent_count and name, and the exception reaches
\* the handler of load_snapshot.
LoopRaise(w) ==
    /\ pc = <<"loop", w>>
    /\ line_no < Len(lines)
    /\ ~IsBlank(lines[line_no + 1])
    /\ parse_size_to_bytes(size_part(lines[line_no + 1])).raised # ""
    /\ loc' = [loc EXCEPT !.indent_count = indent_count(lines[line_no + 1]),
                          !.name = NameOf(lines[line_no + 1])]
    /\ Abort

\* `return snapshot`, and the assignment of the result in main
Return(w) ==
    /\ pc = <<"loop", w>>
    /\ line_no = Len(lines)
    /\ IF w = "old"
       THEN old_snap' = snapshot /\ pc' = <<"call", "new">> /\ UNCHANGED new_snap
       ELSE new_snap' = snapshot /\ pc' = <<"diff", "">> /\ UNCHANGED old_snap
    /\ UNCHANGED <<old_file, new_file, lines, line_no, path_stack, snapshot, loc,
                   all_paths, path_i, added, removed, changed, report,
                   exit_status, fmt_in, fmt_out>>

\* lines 82-87
DiffInit ==
    /\ pc = <<"diff", "">>
    /\ pc' = <<"diff_loop", "">>
    /\ added' = <<>>
    /\ removed' = <<>>
    /\ changed' = <<>>
    /\ all_paths' = Sorted(DOMAIN old_snap \cup DOMAIN new_snap)
    /\ path_i' = 0
    /\ UNCHANGED <<old_file, new_file, lines, line_no, path_stack, snapshot, loc,
                   old_snap, new_snap, report, exit_status, fmt_in, fmt_out>>

\* lines 89-97, one iteration
DiffIter ==
    /\ pc = <<"diff_loop", "">>
    /\ path_i < Len(all_paths)
    /\ LET lists == DiffStep([added |-> added, removed |-> removed, changed |-> changed],
                             all_paths[path_i + 1], old_snap, new_snap)
       IN  /\ added' = lists.added
           /\ removed' = lists.removed
           /\ changed' = lists.changed
    /\ path_i' = path_i + 1
    /\ UNCHANGED <<pc, old_file, new_file, lines, line_no, path_stack, snapshot,
                   loc, old_snap, new_snap, all_paths, report, exit_status,
                   fmt_in, fmt_out>>

\* The end of a run by an exception nothing catches: the traceback, status 1.
Uncaught(at) ==
    /\ pc' = <<"raised", at>>
    /\ exit_status' = <<1>>

\* lines 100-119: open(output_name, "w") succeeds, the report is written and
\* the file is closed.  A format_bytes call that raises ends the run; the
\* with block closes the file with the lines written before.
WriteReport ==
    /\ pc = <<"diff_loop", "">>
    /\ path_i = Len(all_paths)
    /\ report' = [created |-> TRUE, name |-> output_name,
                  lines |-> ReportLines(added, removed, changed), stored |-> "all"]
    /\ IF WritesDone(ReportWrites(added, removed, changed))
             = Len(ReportWrites(added, removed, changed))
       THEN pc' = <<"print", "">> /\ UNCHANGED exit_status
       ELSE Uncaught("format_bytes")
    /\ UNCHANGED <<old_file, new_file, lines, line_no, path_stack, snapshot, loc,
                   old_snap, new_snap, all_paths, path_i, added, removed, changed,
                   fmt_in, fmt_out>>

\* lines 102-119: the file is opened, and a write or the close raises OSError
\* (no space left, a file-size limit): the file holds a prefix of the text.
WriteFail ==
    /\ pc = <<"diff_loop", "">>
    /\ path_i = Len(all_paths)
    /\ report' = [created |-> TRUE, name |-> output_name,
                  lines |-> ReportLines(added, removed, changed), stored |-> "prefix"]
    /\ Uncaught("write")
    /\ UNCHANGED <<old_file, new_file, lines, line_no, path_stack, snapshot, loc,
                   old_snap, new_snap, all_paths, path_i, added, removed, changed,
                   fmt_in, fmt_out>>

\* line 102: open(output_name, "w") raises (the name is a directory, the
\* directory is not writable): no file is created.
ReportOpenFail ==
    /\ pc = <<"diff_loop", "">>
    /\ path_i = Len(all_paths)
    /\ Uncaught("open")
    /\ UNCHANGED <<old_file, new_file, lines, line_no, path_stack, snapshot, loc,
                   old_snap, new_snap, all_paths, path_i, added, removed, changed,
                   report, fmt_in, fmt_out>>

\* lines 121-122: both lines are printed, main returns and standard output is
\* flushed: status 0
PrintOk ==
    /\ pc = <<"print", "">>
    /\ pc' = <<"done", "">>
    /\ exit_status' = <<0>>
    /\ UNCHANGED <<old_file, new_file, lines, line_no, path_stack, snapshot, loc,
                   old_snap, new_snap, all_paths, path_i, added, removed, changed,
                   report, fmt_in, fmt_out>>

\* lines 121-122: both prints go to the buffer of standard output and main
\* returns, but the flush at interpreter exit fails: status 120
PrintUnflushed ==
    /\ pc = <<"print", "">>
    /\ pc' = <<"unflushed", "">>
    /\ exit_status' = <<120>>
    /\ UNCHANGED <<old_file, new_file, lines, line_no, path_stack, snapshot, loc,
                   old_snap, new_snap, all_paths, path_i, added, removed, changed,
                   report, fmt_in, fmt_out>>

\* lines 121-122: a print raises (standard output cannot encode U+2728 or
\* U+1F4C4, or is closed); the report file is already written.
PrintFail ==
    /\ pc = <<"print", "">>
    /\ Uncaught("print")
    /\ UNCHANGED <<old_file, new_file, lines, line_no, path_stack, snapshot, loc,
                   old_snap, new_snap, all_paths, path_i, added, removed, changed,
                   report, fmt_in, fmt_out>>

\* format_bytes called on fmt_in
FormatCall ==
    /\ pc = <<"format_bytes", "">>
    /\ pc' = <<"formatted", "">>
    /\ fmt_out' = format_bytes(fmt_in)
    /\ UNCHANGED <<old_file, new_file, lines, line_no, path_stack, snapshot, loc,
                   old_snap, new_snap, all_paths, path_i, added, removed, changed,
                   report, exit_status, fmt_in>>

-----------------------------------------------------------------------------
(* Inputs *)

Readable(ls) == [readable |-> TRUE, lines |-> ls]
Unreadable == [readable |-> FALSE, lines |-> <<>>]

\* Sequences over S of length at most n.
SeqsUpTo(S, n) == UNION {[1..k -> S] : k \in 0..n}

\* What f.readlines() can return: every line ends with its newline, except
\* possibly the last one.
IsLineList(ls) == \A i \in 1..Len(ls) - 1 : ls[i][Len(ls[i])] = 10

HeaderLine1 == Str(<<"S", "n", "a", "p", "s", "h", "o", "t", "\n">>)
HeaderLine2 == Str(<<"=", "=", "=", "=", "\n">>)

\* "[   1.0 KB] root"
LineRoot1K ==
    Str(<<"[", " ", " ", " ", "1", ".", "0", " ", "K", "B", "]", " ",
          "r", "o", "o", "t", "\n">>)
\* "[ 512.0 B ]     child"
LineChild512 ==
    Str(<<"[", " ", "5", "1", "2", ".", "0", " ", "B", " ", "]", " ",
          " ", " ", " ", " ", "c", "h", "i", "l", "d", "\n">>)
\* "[ 3 KB     ] |-- child " with the digit U+0663, the spaces U+3000 and
\* U+00A0 in place of "3", the space before KB and the trailing space
LineChildWide ==
    <<91, 32, 1635, 12288, 75, 66, 32, 32, 32, 32, 93, 32>>
    \o TeePrefix \o Str(<<"c", "h", "i", "l", "d">>) \o <<160, 10>>
\* "[   2.5 KB] |-- child" with the tee glyph prefix
LineChildTee ==
    Str(<<"[", " ", " ", " ", "2", ".", "5", " ", "K", "B", "]", " ">>)
    \o TeePrefix \o Str(<<"c", "h", "i", "l", "d", "\n">>)
\* "[ 1.2.3 KB] bad": a numeric run float() rejects
LineBadSize ==
    Str(<<"[", " ", "1", ".", "2", ".", "3", " ", "K", "B", "]", " ",
          "b", "a", "d", "\n">>)
\* "[   2.0 MB] |   `-- leaf": bar and ell prefixes, depth 2
LineLeaf ==
    Str(<<"[", " ", " ", " ", "2", ".", "0", " ", "M", "B", "]", " ">>)
    \o BarPrefix \o EllPrefix \o Str(<<"l", "e", "a", "f", "\n">>)
\* a line of white space only: U+00A0, a space, the newline
LineBlank == <<160, 32, 10>>
\* "[         ] root": no number and unit, and no newline (the last line of
\* a file)
LineNoSize ==
    Str(<<"[", " ", " ", " ", " ", " ", " ", " ", " ", " ", "]", " ",
          "r", "o", "o", "t">>)

MaxBody == 2

MainLines == {LineRoot1K, LineChild512, LineChildTee, LineBlank, LineBadSize}

MainFiles ==
    {Unreadable}
    \cup {Readable(<<HeaderLine1, HeaderLine2>> \o b) :
             b \in {c \in SeqsUpTo(MainLines, MaxBody) : IsLineList(c)}}

MaxLoadBody == 3

LoadLines ==
    {LineRoot1K, LineChild512, LineChildWide, LineLeaf, LineBlank, LineBadSize,
     LineNoSize}

\* The first two lines of a file, which load_snapshot drops unread.
LoadHeaders ==
    {<<HeaderLine1, HeaderLine2>>, <<LineBadSize, LineLeaf>>, <<LineBlank, LineRoot1K>>}

\* An unreadable file, the files of less than two lines, and two dropped
\* lines followed by up to MaxLoadBody lines.
LoadFiles ==
    {Unreadable}
    \cup {Readable(ls) : ls \in SeqsUpTo(LoadLines, 1)}
    \cup {Readable(h \o b) :
             h \in LoadHeaders,
             b \in {c \in SeqsUpTo(LoadLines, MaxLoadBody) : IsLineList(c)}}

MaxMantissa == 12

FmtInputs ==
    {sgn * (m * Pow(1024, k) + e) :
        sgn \in {-1, 1}, m \in 0..MaxMantissa, k \in 0..2, e \in {0, 1, 256, 563}}

-----------------------------------------------------------------------------
(* Specifications *)

InitFrame ==
    /\ lines = <<>>
    /\ line_no = 0
    /\ path_stack = <<>>
    /\ snapshot = EmptySnapshot
    /\ loc = NoLocals
    /\ old_snap = EmptySnapshot
    /\ new_snap = EmptySnapshot
    /\ all_paths = <<>>
    /\ path_i = 0
    /\ added = <<>>
    /\ removed = <<>>
    /\ changed = <<>>
    /\ report = NoReport
    /\ exit_status = <<>>

\* main() with both files drawn from MainFiles
Init ==
    /\ pc = <<"call", "old">>
    /\ old_file \in MainFiles
    /\ new_file \in MainFiles
    /\ fmt_in = 0
    /\ fmt_out = Returned(<<>>)
    /\ InitFrame

Next ==
    \/ \E w \in {"old", "new"} :
          \/ Call(w)
          \/ OpenOk(w)
          \/ OpenFail(w)
          \/ LoopBlank(w)
          \/ LoopLine(w)
          \/ LoopRaise(w)
          \/ Return(w)
    \/ DiffInit
    \/ DiffIter
    \/ WriteReport
    \/ WriteFail
    \/ ReportOpenFail
    \/ PrintOk
    \/ PrintUnflushed
    \/ PrintFail

Spec == Init /\ [][Next]_vars

\* load_snapshot(args.old_file) alone, on a wider set of files
InitLoad ==
    /\ pc = <<"call", "old">>
    /\ old_file \in LoadFiles
    /\ new_file = Unreadable
    /\ fmt_in = 0
    /\ fmt_out = Returned(<<>>)
    /\ InitFrame

NextLoad ==
    \/ Call("old")
    \/ OpenOk("old")
    \/ OpenFail("old")
    \/ LoopBlank("old")
    \/ LoopLine("old")
    \/ LoopRaise("old")
    \/ Return("old")

SpecLoad == InitLoad /\ [][NextLoad]_vars

\* format_bytes alone
InitFmt ==
    /\ pc = <<"format_bytes", "">>
    /\ old_file = Unreadable
    /\ new_file = Unreadable
    /\ fmt_in \in FmtInputs
    /\ fmt_out = Returned(<<>>)
    /\ InitFrame

NextFmt == FormatCall

SpecFmt == InitFmt /\ [][NextFmt]_vars

-----------------------------------------------------------------------------
(* Properties *)

InDiff == pc[1] \in {"diff_loop", "print", "raised", "unflushed", "done"}
AtDone == pc = <<"done", "">>
Union == DOMAIN old_snap \cup DOMAIN new_snap
Processed == {all_paths[i] : i \in 1..path_i}
PathsOf(list) == {list[i][1] : i \in 1..Len(list)}
Occurrences(list, p) == Cardinality({i \in 1..Len(list) : list[i][1] = p})
StrictlyAscending(list) ==
    \A i \in 1..Len(list) - 1 : StrLess(list[i][1], list[i + 1][1])

\* C1: during and after the diff loop every path of the union already iterated
\* is in exactly one class: added with new[p] when only in new, removed with
\* old[p] when only in old, changed with the nonzero delta new[p]-old[p] and
\* new[p] when in both with different sizes, and in no list when the sizes are
\* equal; the lists hold no other path and no path twice, and the loop iterates
\* exactly the union.
C1_ExactlyOneClass ==
    InDiff =>
      /\ {all_paths[i] : i \in 1..Len(all_paths)} = Union
      /\ PathsOf(added) \cup PathsOf(removed) \cup PathsOf(changed) \subseteq Processed
      /\ \A p \in Processed :
            LET a == Occurrences(added, p)
                r == Occurrences(removed, p)
                c == Occurrences(changed, p)
            IN  IF p \notin DOMAIN old_snap
                THEN a = 1 /\ r = 0 /\ c = 0
                     /\ \E i \in 1..Len(added) : added[i] = <<p, new_snap[p]>>
                ELSE IF p \notin DOMAIN new_snap
                THEN a = 0 /\ r = 1 /\ c = 0
                     /\ \E i \in 1..Len(removed) : removed[i] = <<p, old_snap[p]>>
                ELSE IF new_snap[p] # old_snap[p]
                THEN a = 0 /\ r = 0 /\ c = 1
                     /\ \E i \in 1..Len(changed) :
                           /\ changed[i] = <<p, new_snap[p] - old_snap[p], new_snap[p]>>
                           /\ changed[i][2] # 0
                ELSE a = 0 /\ r = 0 /\ c = 0
      /\ (AtDone => Processed = Union)

\* A finished run with an added, a removed and a changed path.
C1_Witness == AtDone /\ added # <<>> /\ removed # <<>> /\ changed # <<>>

\* C2: during and after the diff loop each list is strictly ascending by path,
\* and the three lengths sum to at most the number of paths in the union.
C2_SortedAndBounded ==
    InDiff =>
      /\ StrictlyAscending(added)
      /\ StrictlyAscending(removed)
      /\ StrictlyAscending(changed)
      /\ Len(added) + Len(removed) + Len(changed) <= Cardinality(Union)

\* A finished run with two added and two removed paths.
C2_Witness == AtDone /\ Len(added) = 2 /\ Len(removed) = 2

\* C3: when the loop has finished, the diff of the swapped pair has the
\* removed list as its added list and the added list as its removed list, and
\* a changed list with the same paths, the negated deltas and the old
\* snapshot's sizes as current sizes (this direction's are the new snapshot's).
C3_Antisymmetric ==
    AtDone =>
      LET back == Diff(new_snap, old_snap)
      IN  /\ back.added = removed
          /\ back.removed = added
          /\ Len(back.changed) = Len(changed)
          /\ \A i \in 1..Len(changed) :
                /\ back.changed[i][1] = changed[i][1]
                /\ back.changed[i][2] = -changed[i][2]
                /\ back.changed[i][3] = old_snap[changed[i][1]]
                /\ changed[i][3] = new_snap[changed[i][1]]

\* A finished run with an added and a removed path and a negative delta.
C3_Witness ==
    /\ AtDone /\ added # <<>> /\ removed # <<>>
    /\ \E i \in 1..Len(changed) : changed[i][2] < 0

\* Whether load_snapshot fails on a file: it cannot be read, or a retained
\* line after the header makes the size decoding raise.
LoadFails(file) ==
    \/ ~file.readable
    \/ \E i \in 3..Len(file.lines) :
          /\ ~IsBlank(file.lines[i])
          /\ parse_size_to_bytes(size_part(file.lines[i])).raised # ""

\* The report file holds every line of the report.
ReportWritten ==
    report = [created |-> TRUE, name |-> output_name,
              lines |-> ReportLines(added, removed, changed), stored |-> "all"]

\* A failed load ends the run from the handler with a non-zero status, with no
\* diff computed and no report created, and a failed load of the old file ends
\* it before the new file is loaded; the report step is reached only after
\* both loads succeeded, and a run ends with status 0 only after it wrote the
\* whole report.
FailedLoadNoReport ==
    /\ pc[1] = "exit" =>
          /\ LoadFails(old_file) \/ LoadFails(new_file)
          /\ exit_status \in {<<1>>, <<120>>}
          /\ report = NoReport
          /\ all_paths = <<>> /\ added = <<>> /\ removed = <<>> /\ changed = <<>>
    /\ pc[2] = "new" \/ new_snap # EmptySnapshot => ~LoadFails(old_file)
    /\ pc[1] \in {"diff", "diff_loop", "print", "raised", "unflushed", "done"}
          \/ report # NoReport \/ exit_status = <<0>> =>
          ~LoadFails(old_file) /\ ~LoadFails(new_file)
    /\ report.created => pc[1] \in {"print", "raised", "unflushed", "done"}
    /\ AtDone <=> exit_status = <<0>>
    /\ AtDone => ReportWritten
    /\ exit_status \in {<<1>>, <<120>>} <=> pc[1] \in {"exit", "raised", "unflushed"}

\* C4 (as claimed): a failed load ends the run with status 1 and no report;
\* only when both loads succeed is the report written, after which the run
\* exits 0: a run that has ended with the report written has status 0, and a
\* run that has ended after two successful loads has written the report.
C4_FailedLoadNoReport ==
    /\ FailedLoadNoReport
    /\ report.created /\ exit_status # <<>> => exit_status = <<0>>
    /\ exit_status # <<>> /\ ~LoadFails(old_file) /\ ~LoadFails(new_file) =>
          report.created /\ exit_status = <<0>>

\* C10: while load_snapshot runs, every non-empty prefix of the path stack,
\* joined with '/', is a key of the snapshot being built, and each call starts
\* with an empty stack.
C10_AncestorClosure ==
    pc[1] \in {"open", "loop"} =>
      /\ \A k \in 1..Len(path_stack) : Join(SubSeq(path_stack, 1, k)) \in DOMAIN snapshot
      /\ (pc[1] = "open" => path_stack = <<>>)
      /\ (loc.bound => loc.full_path \in DOMAIN snapshot)

\* The new file's parse holds a two-level stack after the old file's left one.
C10_Witness ==
    /\ pc = <<"loop", "new">>
    /\ Len(path_stack) = 2
    /\ old_snap # EmptySnapshot

\* C5 (as claimed): a malformed size field is never an error: load_snapshot
\* never ends the run on a file that could be read, and every retained line
\* it has passed decoded to a non-negative integer size.
C5_MalformedSizeIsNoError ==
    /\ old_file.readable => pc[1] # "exit"
    /\ \A i \in 1..line_no :
          ~IsBlank(lines[i]) =>
              /\ parse_size_to_bytes(size_part(lines[i])).raised = ""
              /\ parse_size_to_bytes(size_part(lines[i])).value \in Nat

\* C6 (as claimed): after a retained line of decoded depth d the stack holds
\* exactly d + 1 entries, whatever the depths of the lines before it.
C6_StackHoldsDepthPlusOne ==
    pc = <<"loop", "old">> /\ loc.bound =>
        /\ Len(path_stack) = loc.indent_count + 1
        /\ loc.full_path = Join(path_stack)

\* C6 (amended): a retained line of decoded depth d, met with n entries on the
\* stack, leaves the first min(d, n) entries followed by its name, so d + 1
\* entries whenever d <= n; its full path is the new stack joined with '/'.
C6_TruncateThenAppend ==
    [][ (pc = <<"loop", "old">> /\ pc' = pc /\ line_no' = line_no + 1
            /\ ~IsBlank(lines[line_no + 1])) =>
          LET d == indent_count(lines[line_no + 1])
              k == IF d <= Len(path_stack) THEN d ELSE Len(path_stack)
          IN  /\ loc'.indent_count = d
              /\ Len(path_stack') = k + 1
              /\ SubSeq(path_stack', 1, k) = SubSeq(path_stack, 1, k)
              /\ path_stack'[k + 1] = NameOf(lines[line_no + 1])
              /\ loc'.full_path = Join(path_stack')
              /\ (d <= Len(path_stack) => Len(path_stack') = d + 1) ]_vars

\* Lines of a file that the loop retains: after the two header lines, not blank.
RetainedLines(ls) == {i \in 3..Len(ls) : ~IsBlank(ls[i])}

\* The path stack once line i of the file has been handled.
RECURSIVE StackAfter(_, _)
StackAfter(ls, i) ==
    IF i < 3 THEN <<>>
    ELSE IF IsBlank(ls[i]) THEN StackAfter(ls, i - 1)
    ELSE PushName(StackAfter(ls, i - 1), ls[i])

PathAt(ls, i) == Join(StackAfter(ls, i))

\* Three retained lines have been handled: the second, of depth 2, met a
\* one-entry stack and left two entries, not three; the third, of depth 1, met
\* those two and kept the first of them only.
C6_Witness ==
    /\ pc = <<"loop", "old">>
    /\ line_no = 3
    /\ RetainedLines(old_file.lines) = {3, 4, 5}
    /\ Len(StackAfter(old_file.lines, 3)) = 1
    /\ indent_count(old_file.lines[4]) = 2
    /\ Len(StackAfter(old_file.lines, 4)) = 2
    /\ indent_count(old_file.lines[5]) = 1
    /\ path_stack = <<StackAfter(old_file.lines, 4)[1], NameOf(old_file.lines[5])>>
    /\ path_stack[1] # StackAfter(old_file.lines, 4)[2]

\* C7: the snapshot load_snapshot returns has as keys exactly the full paths
\* of the retained lines (index >= 2, not blank), each mapped to the decoded
\* size of the last line with that full path, a non-negative integer.
C7_SnapshotOfRetainedLines ==
    pc = <<"call", "new">> =>
      LET ls == old_file.lines
      IN  /\ DOMAIN old_snap = {PathAt(ls, i) : i \in RetainedLines(ls)}
          /\ \A p \in DOMAIN old_snap :
                LET last == CHOOSE i \in RetainedLines(ls) :
                               /\ PathAt(ls, i) = p
                               /\ \A j \in RetainedLines(ls) : PathAt(ls, j) = p => j <= i
                IN  /\ old_snap[p] = parse_size_to_bytes(size_part(ls[last])).value
                    /\ old_snap[p] \in Nat

\* A returned snapshot for a file in which two retained lines share a full
\* path with different sizes.
C7_Witness ==
    /\ pc = <<"call", "new">>
    /\ \E i, j \in RetainedLines(old_file.lines) :
          /\ i < j
          /\ PathAt(old_file.lines, i) = PathAt(old_file.lines, j)
          /\ parse_size_to_bytes(size_part(old_file.lines[i])).value
                # parse_size_to_bytes(size_part(old_file.lines[j])).value

Formatted == pc = <<"formatted", "">>

\* C8 (as claimed): format_bytes(0) is "0 B", the result for every n >= 0
\* begins with '+', and for every n < 0 with '-'.
C8_PlusForAllNonNegative ==
    Formatted /\ fmt_out.raised = "" =>
        /\ fmt_in = 0 => fmt_out.value = Str(<<"0", " ", "B">>)
        /\ fmt_in >= 0 => Head(fmt_out.value) = 43
        /\ fmt_in < 0 => Head(fmt_out.value) = 45

\* C8 (amended): format_bytes(0) is "0 B", without a sign; the result for
\* every n > 0 begins with '+', and for every n < 0 with '-'.
C8_SignOfNonZero ==
    Formatted /\ fmt_out.raised = "" =>
        /\ fmt_in = 0 => fmt_out.value = Str(<<"0", " ", "B">>)
        /\ fmt_in > 0 => Head(fmt_out.value) = 43
        /\ fmt_in < 0 => Head(fmt_out.value) = 45

\* A positive size of at least 1024 was formatted.
C8_Witness == Formatted /\ fmt_in >= 1024 /\ Head(fmt_out.value) = 43

\* C9 (as claimed): for a nonzero d, format_bytes(d) and format_bytes(-d)
\* differ only in their sign character (same digits, same unit).
C9_UnitIgnoresSign ==
    Formatted /\ fmt_in # 0 /\ fmt_out.raised = "" =>
        /\ Tail(fmt_out.value) = Tail(format_bytes(-fmt_in).value)
        /\ {Head(fmt_out.value), Head(format_bytes(-fmt_in).value)} = {43, 45}

====
